---- MODULE Spec2Model ----
(***************************************************************************)
(* vite-plugin-conditional-imports: the strip phase (transform hook and    *)
(* transform), the Origin Registry (importSymbolsToSource) and the check   *)
(* phase (generateBundle, checkBundle, checkChunk, findUndefinedRefs).     *)
(*                                                                         *)
(* Strings the code computes on (file ids, paths, message texts) are       *)
(* sequences of tokens: a path is the sequence of its characters, a        *)
(* message text is a sequence of characters and literal fragments.         *)
(* Strings the code only compares or copies (binding names, import         *)
(* targets) are TLA+ strings.                                              *)
(***************************************************************************)
EXTENDS Integers, Sequences, FiniteSets, TLC

VARIABLES
  phase,                  \* host lifecycle position
  cachedConfig,           \* index.ts:69  TRUE once configResolved stored it
  cachedEnv,              \* index.ts:70  "undefined" or env.command
  autoSourceMaps,         \* index.ts:63  the plugin option, fixed at construction
  pluginRequestedSourcemap, \* index.ts:65
  importSymbolsToSource,  \* index.ts:67  the Origin Registry: name -> list of ids
  tx,                     \* per file id: the running transform() call
  returned,               \* what a transform hook call has just returned to the host
  hookCalls,              \* transform hook invocations in this build
  decided,                \* history: <<id, name>> the predicate decided "strip"
  bundle,                 \* the artifacts handed to generateBundle
  outputDir,              \* options.dir of generateBundle
  errors,                 \* checkBundle's return value in the last pass
  thrown,                 \* texts raised with this.error by generateBundle
  cwd,                    \* process.cwd(), which node:path resolves relative paths against
  userSourcemap,          \* history: userConfig.build?.sourcemap of the last config call
  unlinked,               \* history: the files the last writeBundle call deleted
  node,                   \* the ImportDeclaration handed to getImportAttributes
  withObject,             \* what getImportAttributes returned for node
  earlier                 \* history: the names stripped in the builds before this one

vars == <<phase, cachedConfig, cachedEnv, autoSourceMaps, pluginRequestedSourcemap,
          importSymbolsToSource, tx, returned, hookCalls, decided, bundle,
          outputDir, errors, thrown, cwd, userSourcemap, unlinked, node,
          withObject, earlier>>

(***************************************************************************)
(* Bounds                                                                  *)
(***************************************************************************)
MaxStmts == 3       \* top-level statements of a source file
MaxHookCalls == 2   \* transform hook invocations per build
MaxChunks == 2      \* artifacts of a bundle
MaxRefs == 2        \* lint messages of a chunk
MaxReads == 3       \* accesses to resolvedTarget during one transform() call
MaxAttrs == 2       \* properties of an import's with clause

(***************************************************************************)
(* Strings                                                                 *)
(***************************************************************************)
\* UTF-16 code unit of a path character (String.prototype comparison).
CharCode(c) ==
  CASE c = "." -> 46
    [] c = "/" -> 47
    [] c = "a" -> 97
    [] c = "b" -> 98
    [] c = "c" -> 99
    [] c = "d" -> 100
    [] c = "i" -> 105
    [] c = "j" -> 106
    [] c = "r" -> 114
    [] c = "s" -> 115
    [] c = "t" -> 116
    [] c = "x" -> 120

\* s < t in the order Array.prototype.sort() uses without comparator.
RECURSIVE LexLess(_, _)
LexLess(s, t) ==
  IF t = <<>> THEN FALSE
  ELSE IF s = <<>> THEN TRUE
  ELSE IF Head(s) = Head(t) THEN LexLess(Tail(s), Tail(t))
  ELSE CharCode(Head(s)) < CharCode(Head(t))

StartsWith(s, p) == Len(s) >= Len(p) /\ SubSeq(s, 1, Len(p)) = p
EndsWith(s, p) == Len(s) >= Len(p) /\ SubSeq(s, Len(s) - Len(p) + 1, Len(s)) = p

\* s.split("/") without the empty segments.
RECURSIVE Segments(_)
Segments(s) ==
  IF s = <<>> THEN <<>>
  ELSE IF Head(s) = "/" THEN Segments(Tail(s))
  ELSE LET n == CHOOSE k \in 1..Len(s) :
                  /\ \A j \in 1..k : s[j] # "/"
                  /\ (k = Len(s) \/ s[k + 1] = "/")
       IN <<SubSeq(s, 1, n)>> \o Segments(SubSeq(s, n + 1, Len(s)))

\* segs.join(sep)
RECURSIVE Join(_, _)
Join(segs, sep) ==
  IF segs = <<>> THEN <<>>
  ELSE IF Len(segs) = 1 THEN segs[1]
  ELSE segs[1] \o sep \o Join(Tail(segs), sep)

RECURSIVE CommonPrefixLen(_, _)
CommonPrefixLen(a, b) ==
  IF a = <<>> \/ b = <<>> \/ Head(a) # Head(b) THEN 0
  ELSE 1 + CommonPrefixLen(Tail(a), Tail(b))

\* The segments of a path appended to a base, "." skipped and ".." resolved.
RECURSIVE ResolveSegments(_, _)
ResolveSegments(base, rel) ==
  IF rel = <<>> THEN base
  ELSE IF Head(rel) = <<".">> THEN ResolveSegments(base, Tail(rel))
  ELSE IF Head(rel) = <<".", ".">>
  THEN ResolveSegments(IF base = <<>> THEN base ELSE SubSeq(base, 1, Len(base) - 1),
                       Tail(rel))
  ELSE ResolveSegments(Append(base, Head(rel)), Tail(rel))

IsAbsolute(p) == p # <<>> /\ Head(p) = "/"

\* node:path resolve(p): an absolute path as it is, a relative one against
\* the working directory.
PathResolve(p) ==
  <<"/">> \o Join(ResolveSegments(IF IsAbsolute(p) THEN <<>> ELSE Segments(cwd),
                                  Segments(p)), <<"/">>)

\* node:path relative(from, to): both are resolved first.
PathRelative(from, to) ==
  LET f == Segments(PathResolve(from))
      t == Segments(PathResolve(to))
      k == CommonPrefixLen(f, t)
      ups == [i \in 1..(Len(f) - k) |-> <<".", ".">>]
  IN Join(ups \o SubSeq(t, k + 1, Len(t)), <<"/">>)

\* vite normalizePath on a POSIX path that has no "." or ".." segment.
NormalizePath(p) == IF p = <<>> THEN <<".">> ELSE p

relativeToRoot(filePath, root) ==
  LET rel == PathRelative(root, filePath)
  IN IF StartsWith(rel, <<".", ".">>) \/ IsAbsolute(rel) THEN filePath
     ELSE NormalizePath(rel)

(***************************************************************************)
(* The files and the syntax trees                                          *)
(***************************************************************************)
Root == <<"/", "r">>
A_TS == <<"/", "r", "/", "a", ".", "t", "s">>
B_TS == <<"/", "r", "/", "b", ".", "t", "s">>
S_CSS == <<"/", "r", "/", "s", ".", "c", "s", "s">>

SourceIds == {A_TS, B_TS}      \* ids the hook's extension test accepts
FileIds == SourceIds \cup {S_CSS}

\* /\.(tsx?|jsx?|mts|mjs)$/.test(id)
MatchesExtension(id) ==
  \E e \in {<<".", "t", "s">>, <<".", "t", "s", "x">>,
            <<".", "j", "s">>, <<".", "j", "s", "x">>,
            <<".", "m", "t", "s">>, <<".", "m", "j", "s">>} : EndsWith(id, e)

\* The statement shapes a module body is made of (SWC ModuleItem), without
\* their position.
ImportNamed ==
  [type |-> "ImportDeclaration", typeOnly |-> FALSE, source |-> "./devOnly",
   specifiers |-> <<"debug">>, with |-> <<[key |-> "only", value |-> "dev"]>>]
ImportDefaultAndNamespace ==
  [type |-> "ImportDeclaration", typeOnly |-> FALSE, source |-> "./util",
   specifiers |-> <<"debug", "devOnly">>, with |-> <<>>]
ImportType ==
  [type |-> "ImportDeclaration", typeOnly |-> TRUE, source |-> "./devOnly",
   specifiers |-> <<"DevType">>, with |-> <<[key |-> "only", value |-> "dev"]>>]
ImportSideEffect ==
  [type |-> "ImportDeclaration", typeOnly |-> FALSE, source |-> "./side",
   specifiers |-> <<>>, with |-> <<[key |-> "only", value |-> "dev"]>>]
ExpressionStatement ==
  [type |-> "ExpressionStatement", typeOnly |-> FALSE, source |-> "",
   specifiers |-> <<>>, with |-> <<>>]

\* A second import of the specifier ImportNamed has, binding another name.
ImportNamespace ==
  [type |-> "ImportDeclaration", typeOnly |-> FALSE, source |-> "./devOnly",
   specifiers |-> <<"devOnly">>, with |-> <<[key |-> "only", value |-> "dev"]>>]

StatementShapes ==
  {ImportNamed, ImportDefaultAndNamespace, ImportType, ImportSideEffect,
   ExpressionStatement}

\* parse(code): every item carries its span, here its position in the file.
Parse(shapes) ==
  [i \in 1..Len(shapes) |->
     [type |-> shapes[i].type, typeOnly |-> shapes[i].typeOnly,
      source |-> shapes[i].source, specifiers |-> shapes[i].specifiers,
      with |-> shapes[i].with, span |-> i]]

SourceTexts ==
  UNION {[1..n -> StatementShapes] : n \in 0..MaxStmts}

\* The text of the second source file: the shape of b.ts in the test fixture
\* multiple-source-files.
FixtureTexts == {<<ImportNamed, ExpressionStatement>>}

\* The texts the host may hand to the hook for a file id.
FileTexts(id) ==
  IF id = A_TS THEN SourceTexts
  ELSE IF id = B_TS THEN FixtureTexts
  ELSE {<<ExpressionStatement>>}

\* Where the predicate may throw synchronously in a text: at no import (0) or
\* at one of the imports it is invoked for.
ThrowPoints(code) ==
  {0} \cup {i \in 1..Len(code) :
              code[i].type = "ImportDeclaration" /\ ~code[i].typeOnly}

BindingNames == {"debug", "devOnly", "DevType"}

\* The characters of an import specifier (item.source.value).
Chars(target) ==
  CASE target = "./devOnly" -> <<".", "/", "d", "e", "v", "O", "n", "l", "y">>
    [] target = "./util" -> <<".", "/", "u", "t", "i", "l">>
    [] target = "./side" -> <<".", "/", "s", "i", "d", "e">>

\* The id the host's resolver finds for a specifier imported from a file of
\* the root directory: the TypeScript file of that name.
ResolvedId(target) ==
  Root \o SubSeq(Chars(target), 2, Len(Chars(target))) \o <<".", "t", "s">>

\* The working directories of the process: the project root (vite's default
\* root is process.cwd()) or a directory outside it.
Cwds == {Root, <<"/", "w">>}

\* The text of a file two of whose imports have the same specifier.
ResolveTexts == {<<ImportNamed, ImportDefaultAndNamespace, ImportNamespace>>}

(***************************************************************************)
(* transform (transform.ts)                                                *)
(***************************************************************************)
\* What Promise.all yields for a predicate that decided "strip".
NullItem ==
  [type |-> "null", typeOnly |-> FALSE, source |-> "", specifiers |-> <<>>,
   with |-> <<>>, span |-> 0]

\* The idle record of a file id: no transform() call is running.
\* symbols and targets are strippedImportSymbols and strippedImportTargets;
\* overtaken records that a promise settled while one pushed before it was
\* still pending.
\* promises are the promises the resolvedTarget getter has created, each with
\* its specifier, how context.resolve settled ("pending", "id" or "null") and
\* the value it resolved to; resolveCache maps a specifier to the position of
\* its promise; handles are the accesses: <<import, promise received, state of
\* the cache entry at the access>>; reads counts them. overlapped records
\* that the call began while the transform of another file was running.
IdleTx == [pc |-> "idle", body |-> <<>>, slots |-> <<>>, overtaken |-> FALSE,
           overlapped |-> FALSE,
           symbols |-> {}, targets |-> {}, promises |-> <<>>,
           resolveCache |-> [t \in {} |-> 0], handles |-> {}, reads |-> 0]

\* No hook call has returned since the host last took a result.
NoResult == [kind |-> "none", id |-> <<>>, code |-> <<>>, map |-> FALSE,
             error |-> "", call |-> IdleTx]

\* A faulty candidate test: the typeOnly flag is not looked at.
IsCandidateAnyImport(item) == item.type = "ImportDeclaration"

\* Statements that go to the predicate: value imports only.
IsCandidate(item) == item.type = "ImportDeclaration" /\ ~item.typeOnly

\* A faulty loop: it waits for the predicate of a candidate before it goes
\* on, so at its first wait the statements after the first candidate are not
\* visited.
ScatterSequential(body, throwAt) ==
  LET first == {i \in 1..Len(body) :
                  IsCandidate(body[i]) /\ \A j \in 1..(i - 1) : ~IsCandidate(body[j])}
  IN [i \in 1..Len(body) |->
        IF \E f \in first : i > f THEN "unvisited"
        ELSE IF ~IsCandidate(body[i]) THEN "item"
        ELSE IF i = throwAt THEN "threw"
        ELSE "pending"]

\* The loop over mod.body: a statement that is no candidate is pushed as it
\* is ("item"); a candidate's predicate is invoked and its promise pushed
\* ("pending"). throwAt is the position of the candidate whose predicate
\* throws synchronously (0: none does): the loop ends there ("threw") and the
\* statements after it are never visited ("unvisited").
Scatter(body, throwAt) ==
  LET threw == throwAt \in 1..Len(body) /\ IsCandidate(body[throwAt])
  IN [i \in 1..Len(body) |->
        IF threw /\ i > throwAt THEN "unvisited"
        ELSE IF ~IsCandidate(body[i]) THEN "item"
        ELSE IF threw /\ i = throwAt THEN "threw"
        ELSE "pending"]

Range(s) == {s[i] : i \in 1..Len(s)}

\* A faulty gather: the statements pushed as they are first, the settled
\* promises after them.
PromiseAllPlainFirst(body, slots) ==
  LET idx == [i \in 1..Len(body) |-> i]
      plain == SelectSeq(idx, LAMBDA i : slots[i] = "item")
      promised == SelectSeq(idx, LAMBDA i : slots[i] # "item")
      at == plain \o promised
  IN [k \in 1..Len(body) |->
        IF slots[at[k]] = "strip" THEN NullItem ELSE body[at[k]]]

\* await Promise.all(body): one result per position of body, whatever the
\* order the promises settled in.
PromiseAll(body, slots) ==
  [i \in 1..Len(body) |-> IF slots[i] = "strip" THEN NullItem ELSE body[i]]

\* A faulty filter: nothing is removed.
FilterKeepsAll(results) == results

\* results.filter(item => item != null)
FilterNonNull(results) == SelectSeq(results, LAMBDA it : it # NullItem)

\* A faulty test: the code is always re-emitted.
TransformNeverReturnsNull(symbols, targets) == FALSE

\* transform.ts: if (strippedImportSymbols.size === 0) return null
TransformReturnsNull(symbols, targets) == symbols = {}

\* A faulty cache: every lookup misses.
ResolveCacheMisses(resolveCache, target) == 0

\* resolveCache.get(target): the position of the cached promise, 0 for undefined.
ResolveCacheGet(resolveCache, target) ==
  IF target \in DOMAIN resolveCache THEN resolveCache[target] ELSE 0

\* r => relativeToRoot(r?.id ?? target, context.config.root): transform.ts:128
ResolvedTargetValue(found, target, root) ==
  relativeToRoot(IF found THEN ResolvedId(target) ELSE Chars(target), root)

\* A faulty transform: one set of stripped names for all the calls.
StrippedImportSymbolsShared(calls, id) ==
  UNION {calls[f].symbols : f \in DOMAIN calls}

\* transform.ts:103: strippedImportSymbols is a set of the call.
StrippedImportSymbols(calls, id) == calls[id].symbols

\* A faulty push: the name's list is replaced by the id.
RegistryPushOverwrites(reg, names, id) ==
  [n \in DOMAIN reg \cup names |-> IF n \in names THEN <<id>> ELSE reg[n]]

\* index.ts:132-136: for each stripped name, push id on the name's list.
\* The names are the elements of a Set; the order they are visited in only
\* orders pushes on different lists.
RegistryPush(reg, names, id) ==
  [n \in DOMAIN reg \cup names |->
     IF n \in names
     THEN Append(IF n \in DOMAIN reg THEN reg[n] ELSE <<>>, id)
     ELSE reg[n]]

EmptyRegistry == [n \in {} |-> <<>>]

\* A faulty buildStart: the registry is left as the build before left it.
RegistryClearKeeps(reg) == reg

\* importSymbolsToSource.clear(): index.ts:104
RegistryClear(reg) == EmptyRegistry

(***************************************************************************)
(* The bundle and the check (check.ts)                                     *)
(***************************************************************************)
OutDir == <<"/", "r", "/", "d">>
X_JS == <<"x", ".", "j", "s">>
RawSourceA == <<".", ".", "/", "a", ".", "t", "s">>   \* a.ts as the map names it

\* What generateBundle may get as options.dir: undefined (empty) or a directory.
OutputDirs == {<<>>, OutDir}

\* The messages linter.verify reports in a chunk's text, in document order:
\* an undeclared identifier (rule no-undef), or a fatal parse message (no rule).
LintKinds ==
  {[ruleId |-> "no-undef", name |-> "debug"],
   [ruleId |-> "no-undef", name |-> "devOnly"],
   [ruleId |-> "fatal", name |-> ""]}

ChunkTexts == UNION {[1..k -> LintKinds] : k \in 0..MaxRefs}

ModuleSets == {{A_TS}, {A_TS, B_TS}}

\* chunk.map: none, or a map that traces every position of the chunk to one
\* raw source (the empty source: to none).
NoMap == [present |-> FALSE, source |-> <<>>]
ChunkMaps == {NoMap, [present |-> TRUE, source |-> RawSourceA],
              [present |-> TRUE, source |-> <<>>]}

Asset == [type |-> "asset", fileName |-> X_JS, code |-> <<>>, moduleIds |-> {},
          map |-> NoMap]

\* An asset whose content is script text with an undeclared debug in it.
ScriptAsset ==
  [type |-> "asset", fileName |-> X_JS,
   code |-> <<[ruleId |-> "no-undef", name |-> "debug"]>>, moduleIds |-> {},
   map |-> NoMap]

RECURSIVE SumLen(_)
SumLen(ss) == IF ss = <<>> THEN 0 ELSE Len(Head(ss)) + SumLen(Tail(ss))

\* The bundles: up to MaxChunks artifacts with up to MaxRefs lint messages
\* between them; the chunks of one build all carry a map or none does.
Artifacts(m) ==
  {Asset, ScriptAsset} \cup
  {[type |-> "chunk", fileName |-> X_JS, code |-> c, moduleIds |-> ms, map |-> m] :
     c \in ChunkTexts, ms \in ModuleSets}

Bundles ==
  UNION {{b \in UNION {[1..n -> Artifacts(m)] : n \in 0..MaxChunks} :
            SumLen([i \in 1..Len(b) |-> b[i].code]) <= MaxRefs} : m \in ChunkMaps}

\* linter.verify(code, eslintConfig): the messages with their positions.
LinterVerify(code) ==
  [i \in 1..Len(code) |->
     [ruleId |-> code[i].ruleId, name |-> code[i].name, line |-> i, column |-> 1]]

\* A faulty findUndefinedRefs: a name is collected each time it occurs.
CollectRefsRepeats(messages, seen) ==
  LET undef == SelectSeq(messages, LAMBDA msg : msg.ruleId = "no-undef" /\ msg.name # "")
  IN [j \in 1..Len(undef) |->
        [name |-> undef[j].name, line |-> undef[j].line, column |-> undef[j].column]]

\* findUndefinedRefs: check.ts:29-61
RECURSIVE CollectRefs(_, _)
CollectRefs(messages, seen) ==
  IF messages = <<>> THEN <<>>
  ELSE LET msg == Head(messages)
       IN IF msg.ruleId # "no-undef" THEN CollectRefs(Tail(messages), seen)
          ELSE IF msg.name = "" \/ msg.name \in seen
          THEN CollectRefs(Tail(messages), seen)
          ELSE <<[name |-> msg.name, line |-> msg.line, column |-> msg.column]>>
               \o CollectRefs(Tail(messages), seen \cup {msg.name})

findUndefinedRefs(code) == CollectRefs(LinterVerify(code), {})

\* path.join(dir, name)
PathJoin(dir, name) == dir \o <<"/">> \o name

\* originalPositionFor(new TraceMap(map, mapUrl), {line, column}).source;
\* the empty path stands for null.
OriginalSource(map, mapUrl, line, column) ==
  IF map.source = <<>> THEN <<>>
  ELSE IF mapUrl = <<>> THEN map.source
  ELSE LET segs == Segments(mapUrl)
           dir == SubSeq(segs, 1, Len(segs) - 1)
       IN <<"/">> \o Join(ResolveSegments(dir, Segments(map.source)), <<"/">>)

\* Array.prototype.sort() of strings.
RECURSIVE SortInsert(_, _)
SortInsert(sorted, x) ==
  IF sorted = <<>> THEN <<x>>
  ELSE IF LexLess(x, Head(sorted)) THEN <<x>> \o sorted
  ELSE <<Head(sorted)>> \o SortInsert(Tail(sorted), x)

RECURSIVE Sort(_)
Sort(xs) == IF xs = <<>> THEN <<>> ELSE SortInsert(Sort(SubSeq(xs, 1, Len(xs) - 1)), xs[Len(xs)])

\* The message of check.ts:118-120.
Message(name, ids) ==
  <<"Stripped conditional import binding '", name, "' still in output (">>
  \o Join(Sort(ids), <<",", " ">>) \o <<")">>

\* A faulty filter: every origin of the name is kept.
RelevantSourceIdsUnfiltered(sourceIds, moduleIdsInChunk) == sourceIds

\* sourceIds.filter(id => moduleIdsInChunk.has(id)): check.ts:90
RelevantSourceIds(sourceIds, moduleIdsInChunk) ==
  SelectSeq(sourceIds, LAMBDA id : id \in moduleIdsInChunk)

\* The source the reference is traced to: check.ts:97-110.
SourceOfError(chunk, ref, dir) ==
  IF chunk.map.present
  THEN LET mapUrl == IF dir # <<>>
                     THEN PathJoin(dir, chunk.fileName \o <<".", "m", "a", "p">>)
                     ELSE <<>>
       IN OriginalSource(chunk.map, mapUrl, ref.line, ref.column)
  ELSE <<>>

\* A faulty choice of ids: the traced source is not used.
ErrorSourceIdsUntraced(sourceOfError, relevantSourceIds, root, dir) ==
  IF dir # <<>>
  THEN [k \in 1..Len(relevantSourceIds) |-> relativeToRoot(relevantSourceIds[k], root)]
  ELSE relevantSourceIds

\* The ids the message names: check.ts:112-116.
ErrorSourceIds(sourceOfError, relevantSourceIds, root, dir) ==
  LET errorSourceIds == IF sourceOfError # <<>> THEN <<sourceOfError>>
                        ELSE relevantSourceIds
  IN IF dir # <<>>
     THEN [k \in 1..Len(errorSourceIds) |-> relativeToRoot(errorSourceIds[k], root)]
     ELSE errorSourceIds

\* The loop of checkChunk over the undefined references: check.ts:82-121.
RECURSIVE CheckRefs(_, _, _, _, _)
CheckRefs(refs, chunk, registry, root, dir) ==
  IF refs = <<>> THEN <<>>
  ELSE LET ref == Head(refs)
           rest == CheckRefs(Tail(refs), chunk, registry, root, dir)
       IN IF ref.name \notin DOMAIN registry THEN rest
          ELSE LET relevant == RelevantSourceIds(registry[ref.name], chunk.moduleIds)
               IN IF relevant = <<>> THEN rest
                  ELSE <<Message(ref.name,
                                 ErrorSourceIds(SourceOfError(chunk, ref, dir),
                                                relevant, root, dir))>> \o rest

\* A faulty checkChunk: a chunk without a source map is not checked.
checkChunkNeedsMap(chunk, registry, root, dir) ==
  IF chunk.map.present
  THEN CheckRefs(findUndefinedRefs(chunk.code), chunk, registry, root, dir)
  ELSE <<>>

\* checkChunk: check.ts:63-124
checkChunk(chunk, registry, root, dir) ==
  CheckRefs(findUndefinedRefs(chunk.code), chunk, registry, root, dir)

\* A faulty checkBundle: it stops at the first chunk that has messages.
RECURSIVE checkBundleFirstOnly(_, _, _, _)
checkBundleFirstOnly(artifacts, registry, root, dir) ==
  IF DOMAIN registry = {} \/ artifacts = <<>> THEN <<>>
  ELSE IF Head(artifacts).type # "chunk"
  THEN checkBundleFirstOnly(Tail(artifacts), registry, root, dir)
  ELSE LET found == checkChunk(Head(artifacts), registry, root, dir)
       IN IF found # <<>> THEN found
          ELSE checkBundleFirstOnly(Tail(artifacts), registry, root, dir)

\* checkBundle: check.ts:130-153
RECURSIVE checkBundle(_, _, _, _)
checkBundle(artifacts, registry, root, dir) ==
  IF DOMAIN registry = {} \/ artifacts = <<>> THEN <<>>
  ELSE IF Head(artifacts).type # "chunk"
  THEN checkBundle(Tail(artifacts), registry, root, dir)
  ELSE checkChunk(Head(artifacts), registry, root, dir)
       \o checkBundle(Tail(artifacts), registry, root, dir)

\* A faulty filter: when no id is filtered out, the array it was called on is
\* handed back.
FilterReturnsReceiver(sourceIds, relevantSourceIds) ==
  relevantSourceIds # sourceIds

\* check.ts:90: Array.prototype.filter returns an array of its own, whatever
\* it keeps.
FilterReturnsNewArray(sourceIds, relevantSourceIds) == TRUE

\* The registry after one pass of the loop of checkChunk: check.ts:82-121.
\* relativeSourceIds.sort() of check.ts:119 sorts in place the array that
\* map() made (a directory is given), the one-element array of the traced
\* source, or else the array filter() returned.
RegistryAfterRef(ref, chunk, registry, dir) ==
  IF ref.name \notin DOMAIN registry THEN registry
  ELSE LET sourceIds == registry[ref.name]
           relevant == RelevantSourceIds(sourceIds, chunk.moduleIds)
       IN IF relevant = <<>> THEN registry
          ELSE IF dir # <<>> \/ SourceOfError(chunk, ref, dir) # <<>> THEN registry
          ELSE IF FilterReturnsNewArray(sourceIds, relevant) THEN registry
          ELSE [registry EXCEPT ![ref.name] = Sort(sourceIds)]

RECURSIVE RegistryAfterRefs(_, _, _, _)
RegistryAfterRefs(refs, chunk, registry, dir) ==
  IF refs = <<>> THEN registry
  ELSE RegistryAfterRefs(Tail(refs), chunk,
                         RegistryAfterRef(Head(refs), chunk, registry, dir), dir)

\* The registry after checkBundle: check.ts:130-153.
RECURSIVE RegistryAfterCheck(_, _, _)
RegistryAfterCheck(artifacts, registry, dir) ==
  IF DOMAIN registry = {} \/ artifacts = <<>> THEN registry
  ELSE IF Head(artifacts).type # "chunk"
  THEN RegistryAfterCheck(Tail(artifacts), registry, dir)
  ELSE RegistryAfterCheck(Tail(artifacts),
                          RegistryAfterRefs(findUndefinedRefs(Head(artifacts).code),
                                            Head(artifacts), registry, dir),
                          dir)

(***************************************************************************)
(* getImportAttributes (importAttributes.ts)                               *)
(***************************************************************************)
\* A JavaScript value: its kind (typeof, or "undefined") and its text.
Undefined == [kind |-> "undefined", repr |-> ""]
JsValue(kind, repr) == [kind |-> kind, repr |-> repr]

\* The values of the literals of an attribute, '' , false and 0 among them.
LiteralValues ==
  {JsValue("string", "dev"), JsValue("string", ""), JsValue("boolean", "true"),
   JsValue("boolean", "false"), JsValue("number", "1"), JsValue("number", "0")}

\* An SWC node that has a value field (Identifier, StringLiteral,
\* BooleanLiteral, NumericLiteral) or has none (Computed key, NullLiteral).
WithValue(type, value) == [type |-> type, hasValue |-> TRUE, value |-> value]
WithoutValue(type) == [type |-> type, hasValue |-> FALSE, value |-> Undefined]
NoChild == WithoutValue("undefined")

KeyNodes ==
  {WithValue("Identifier", JsValue("string", "only")),
   WithValue("StringLiteral", JsValue("string", "mode")),
   WithoutValue("Computed")}

ValueNodes ==
  {WithValue(IF v.kind = "string" THEN "StringLiteral"
             ELSE IF v.kind = "boolean" THEN "BooleanLiteral"
             ELSE "NumericLiteral", v) : v \in LiteralValues}
  \cup {WithoutValue("NullLiteral")}

\* The properties of an object expression: key and value, or a shorthand
\* identifier, which has no key and whose value field is its name, a string.
Properties ==
  {[type |-> "KeyValueProperty", hasKey |-> TRUE, key |-> k, hasValue |-> TRUE,
    value |-> v, name |-> ""] : k \in KeyNodes, v \in ValueNodes}
  \cup {[type |-> "Identifier", hasKey |-> FALSE, key |-> NoChild,
          hasValue |-> TRUE, value |-> NoChild, name |-> "only"]}

NoClause == [present |-> FALSE, properties |-> <<>>]
Clauses ==
  {[present |-> TRUE, properties |-> ps] :
     ps \in UNION {[1..n -> Properties] : n \in 0..MaxAttrs}}

\* No import has been handed to getImportAttributes.
NoNode == [with |-> NoClause, asserts |-> NoClause]

\* The import declarations: without clause, with a with clause, or with the
\* clause in the asserts field.
AttrNodes ==
  {[with |-> c, asserts |-> NoClause] : c \in Clauses \cup {NoClause}}
  \cup {[with |-> NoClause, asserts |-> c] : c \in Clauses}

\* const out = {}: importAttributes.ts:46
NoAttributes == [k \in {} |-> Undefined]

\* getImportAttributes has not been called for node.
NotCalled == [called |-> FALSE, out |-> NoAttributes]

\* importAttributes.ts:4-8: node.with ?? node.asserts
getWithObject(n) == IF n.with.present THEN n.with ELSE n.asserts

\* importAttributes.ts:12-15: withObj?.properties ?? []
getAttrList(n) ==
  LET withObj == getWithObject(n)
  IN IF withObj.present THEN withObj.properties ELSE <<>>

\* importAttributes.ts:17-22
getKey(attr) ==
  IF attr.hasKey /\ attr.key.hasValue THEN attr.key.value ELSE Undefined

\* importAttributes.ts:24-29: a shorthand's value field is a string, no object.
getVal(attr) ==
  IF attr.hasValue /\ attr.type # "Identifier" /\ attr.value.hasValue
  THEN attr.value.value
  ELSE Undefined

\* A faulty test: a falsy key or value is taken for a missing one.
BothTruthy(key, val) ==
  /\ key.kind # "undefined" /\ key.repr \notin {"", "false", "0"}
  /\ val.kind # "undefined" /\ val.repr \notin {"", "false", "0"}

\* importAttributes.ts:52: key != null && val != null
BothRead(key, val) == key.kind # "undefined" /\ val.kind # "undefined"

\* The loop of importAttributes.ts:48-55 over the first n properties.
RECURSIVE CollectAttributes(_, _)
CollectAttributes(list, n) ==
  IF n = 0 THEN NoAttributes
  ELSE LET out == CollectAttributes(list, n - 1)
           key == getKey(list[n])
           val == getVal(list[n])
       IN IF BothRead(key, val)
          THEN [k \in DOMAIN out \cup {key.repr} |->
                  IF k = key.repr THEN val ELSE out[k]]
          ELSE out

\* importAttributes.ts:42-58
getImportAttributes(n) ==
  LET list == getAttrList(n)
  IN CollectAttributes(list, Len(list))

(***************************************************************************)
(* The plugin (index.ts)                                                   *)
(***************************************************************************)
\* The state conditionalImports(shouldStrip, options) returns the plugin in:
\* index.ts:63-70. auto is options.autoSourceMaps !== false.
Constructed(auto) ==
  /\ phase = "init"
  /\ cachedConfig = FALSE
  /\ cachedEnv = "undefined"
  /\ autoSourceMaps = auto
  /\ pluginRequestedSourcemap = FALSE
  /\ importSymbolsToSource = EmptyRegistry
  /\ tx = [f \in FileIds |-> IdleTx]
  /\ returned = NoResult
  /\ hookCalls = 0
  /\ decided = {}
  /\ bundle = <<>>
  /\ outputDir = <<>>
  /\ errors = <<>>
  /\ thrown = <<>>
  /\ userSourcemap = "unset"
  /\ unlinked = {}
  /\ node = NoNode
  /\ withObject = NotCalled
  /\ earlier = {}

\* The plugin with its default options, in a process run from the project root.
Init == Constructed(TRUE) /\ cwd = Root

NoneRunning == \A f \in FileIds : tx[f].pc = "idle"

\* The host takes a hook's return value as the hook returns it, before it
\* calls another hook; an error raised during a build aborts the build.
HostIdle == returned.kind = "none"

HostTakesResult ==
  /\ returned.kind # "none"
  /\ returned' = NoResult
  /\ phase' = IF returned.kind = "error" /\ phase = "strip" THEN "failed" ELSE phase
  /\ UNCHANGED <<cachedConfig, cachedEnv, autoSourceMaps,
                 pluginRequestedSourcemap, importSymbolsToSource, tx, hookCalls,
                 decided, bundle, outputDir, errors, thrown>>
  /\ UNCHANGED <<cwd, userSourcemap, unlinked, node, withObject, earlier>>

\* config(userConfig, env): index.ts:77-97. sourcemap is userConfig.build?.sourcemap:
\* "unset" (null or undefined), "false", or "set" (true, 'inline', 'hidden').
ConfigHook(command, sourcemap) ==
  /\ HostIdle
  /\ phase = "init"
  /\ phase' = "configured"
  /\ cachedEnv' = command
  /\ pluginRequestedSourcemap' =
       IF ~autoSourceMaps THEN pluginRequestedSourcemap
       ELSE IF command = "build" /\ sourcemap \in {"unset", "false"} THEN TRUE
       ELSE pluginRequestedSourcemap
  /\ UNCHANGED <<cachedConfig, autoSourceMaps, importSymbolsToSource, tx,
                 returned, hookCalls, decided, bundle, outputDir, errors, thrown>>
  /\ userSourcemap' = sourcemap
  /\ UNCHANGED <<cwd, unlinked, node, withObject, earlier>>

\* configResolved(config): index.ts:99-101
ConfigResolved ==
  /\ HostIdle
  /\ phase = "configured"
  /\ phase' = "resolved"
  /\ cachedConfig' = TRUE
  /\ UNCHANGED <<cachedEnv, autoSourceMaps, pluginRequestedSourcemap,
                 importSymbolsToSource, tx, returned, hookCalls, decided, bundle,
                 outputDir, errors, thrown>>
  /\ UNCHANGED <<cwd, userSourcemap, unlinked, node, withObject, earlier>>

\* buildStart(): index.ts:103-105. The host starts a build (the first, a
\* rebuild in watch mode, or the one after a failed build) once no transform
\* of the previous one is running.
BuildStartHook ==
  /\ HostIdle
  /\ phase \in {"resolved", "strip", "failed", "done"}
  /\ NoneRunning
  /\ phase' = "strip"
  /\ importSymbolsToSource' = RegistryClear(importSymbolsToSource)
  /\ hookCalls' = 0
  /\ decided' = {}
  /\ bundle' = <<>>
  /\ outputDir' = <<>>
  /\ errors' = <<>>
  /\ thrown' = <<>>
  /\ UNCHANGED <<cachedConfig, cachedEnv, autoSourceMaps,
                 pluginRequestedSourcemap, tx, returned>>
  /\ UNCHANGED <<cwd, userSourcemap, unlinked, node, withObject>>

\* A build starts; what earlier builds stripped is not followed.
BuildStart == BuildStartHook /\ UNCHANGED earlier

\* A build starts, and the names the build before it stripped join the
\* history.
BuildStartAfterBuild ==
  /\ BuildStartHook
  /\ earlier' = earlier \cup {n \in BindingNames : \E f \in SourceIds : <<f, n>> \in decided}

\* A faulty test: only env is looked at.
NotResolvedEnvOnly(config, env) == env = "undefined"

\* !cachedConfig || !cachedEnv: index.ts:108
NotResolved(config, env) == ~config \/ env = "undefined"

\* transform(code, id) up to its first await: index.ts:107-122 and
\* transform.ts:90-157. code is the file's text, throwAt the position of the
\* import whose predicate throws synchronously (0: none).
TransformStart(id, code, throwAt) ==
  /\ HostIdle
  /\ phase \in {"init", "configured", "strip"}
  /\ tx[id].pc = "idle"
  /\ hookCalls < MaxHookCalls
  /\ IF NotResolved(cachedConfig, cachedEnv)
     THEN /\ returned' = [NoResult EXCEPT !.kind = "error", !.id = id,
                            !.error = "config or env not resolved"]
          /\ UNCHANGED <<tx, hookCalls>>
     ELSE IF ~MatchesExtension(id)
     THEN /\ returned' = [NoResult EXCEPT !.kind = "null", !.id = id]
          /\ UNCHANGED <<tx, hookCalls>>
     ELSE LET body == Parse(code)
              slots == Scatter(body, throwAt)
              call == [IdleTx EXCEPT !.pc = "awaiting", !.body = body,
                                     !.slots = slots,
                                     !.overlapped =
                                       \E g \in FileIds \ {id} : tx[g].pc = "awaiting"]
          IN /\ hookCalls' = hookCalls + 1
             /\ IF \E i \in 1..Len(body) : slots[i] = "threw"
                THEN /\ returned' = [NoResult EXCEPT !.kind = "error", !.id = id,
                                       !.error = "predicate", !.call = call]
                     /\ UNCHANGED tx
                ELSE /\ tx' = [tx EXCEPT ![id] = call]
                     /\ UNCHANGED returned
  /\ UNCHANGED <<phase, cachedConfig, cachedEnv, autoSourceMaps,
                 pluginRequestedSourcemap, importSymbolsToSource, decided,
                 bundle, outputDir, errors, thrown>>
  /\ UNCHANGED <<cwd, userSourcemap, unlinked, node, withObject, earlier>>

\* The promise of the predicate invoked for body[i] settles, and with it the
\* then-callback of transform.ts:140-152 runs. decision is "strip" (true),
\* "keep" (false) or "rejected". Once a promise has rejected, Promise.all has
\* rejected: what settles after that reaches neither the result nor the
\* registry, and is left out.
PredicateSettles(id, i, decision) ==
  /\ HostIdle
  /\ tx[id].pc = "awaiting"
  /\ i \in 1..Len(tx[id].body)
  /\ tx[id].slots[i] = "pending"
  /\ \A j \in 1..Len(tx[id].body) : tx[id].slots[j] # "rejected"
  /\ LET item == tx[id].body[i]
     IN /\ tx' = [tx EXCEPT ![id] =
                    [@ EXCEPT !.slots[i] = decision,
                              !.overtaken =
                                @ \/ \E j \in 1..(i - 1) : tx[id].slots[j] = "pending",
                              !.targets = IF decision = "strip"
                                          THEN @ \cup {item.source} ELSE @,
                              !.symbols = IF decision = "strip"
                                          THEN @ \cup Range(item.specifiers) ELSE @]]
        /\ decided' = IF decision = "strip"
                      THEN decided \cup {<<id, n>> : n \in Range(item.specifiers)}
                      ELSE decided
  /\ UNCHANGED <<phase, cachedConfig, cachedEnv, autoSourceMaps,
                 pluginRequestedSourcemap, importSymbolsToSource, returned,
                 hookCalls, bundle, outputDir, errors, thrown>>
  /\ UNCHANGED <<cwd, userSourcemap, unlinked, node, withObject, earlier>>

\* The predicate invoked for body[i] reads ctx.resolvedTarget while it runs:
\* the getter of transform.ts:119-133.
ReadResolvedTarget(id, i) ==
  /\ HostIdle
  /\ tx[id].pc = "awaiting"
  /\ i \in 1..Len(tx[id].body)
  /\ tx[id].slots[i] = "pending"
  /\ tx[id].reads < MaxReads
  /\ LET t == tx[id]
         target == t.body[i].source
         cached == ResolveCacheGet(t.resolveCache, target)
         fresh == Len(t.promises) + 1
     IN tx' = [tx EXCEPT ![id] =
          IF cached # 0
          THEN [t EXCEPT !.handles = @ \cup {<<i, cached, t.promises[cached].resolution>>},
                         !.reads = @ + 1]
          ELSE [t EXCEPT !.promises = Append(@, [target |-> target,
                                                 resolution |-> "pending",
                                                 value |-> <<>>]),
                         !.resolveCache =
                           [x \in DOMAIN @ \cup {target} |->
                              IF x = target THEN fresh ELSE @[x]],
                         !.handles = @ \cup {<<i, fresh, "created">>},
                         !.reads = @ + 1]]
  /\ UNCHANGED <<phase, cachedConfig, cachedEnv, autoSourceMaps,
                 pluginRequestedSourcemap, importSymbolsToSource, returned,
                 hookCalls, decided, bundle, outputDir, errors, thrown>>
  /\ UNCHANGED <<cwd, userSourcemap, unlinked, node, withObject, earlier>>

\* context.resolve(target, id) settles for promise p, with a resolved id
\* (found) or with null, and the then-callback of transform.ts:128 runs.
ResolveSettles(id, p, found) ==
  /\ HostIdle
  /\ tx[id].pc = "awaiting"
  /\ p \in 1..Len(tx[id].promises)
  /\ tx[id].promises[p].resolution = "pending"
  /\ LET target == tx[id].promises[p].target
     IN tx' = [tx EXCEPT ![id].promises[p] =
                 [target |-> target,
                  resolution |-> IF found THEN "id" ELSE "null",
                  value |-> ResolvedTargetValue(found, target, Root)]]
  /\ UNCHANGED <<phase, cachedConfig, cachedEnv, autoSourceMaps,
                 pluginRequestedSourcemap, importSymbolsToSource, returned,
                 hookCalls, decided, bundle, outputDir, errors, thrown>>
  /\ UNCHANGED <<cwd, userSourcemap, unlinked, node, withObject, earlier>>

\* What transform() resolves to once Promise.all has resolved:
\* transform.ts:157-176.
TransformResult(id, t) ==
  LET results == PromiseAll(t.body, t.slots)
      modBody == FilterNonNull(results)
  IN IF TransformReturnsNull(t.symbols, t.targets)
     THEN [NoResult EXCEPT !.kind = "null", !.id = id, !.call = t]
     ELSE [NoResult EXCEPT !.kind = "code", !.id = id, !.code = modBody,
                           !.map = TRUE, !.call = t]

\* A faulty hook: the names are recorded whatever transform() came to.
HookRecordsAlways(result, t) == t.symbols

\* A faulty hook: the names of every import that went to the predicate are
\* recorded.
HookRecordsEveryImport(result, t) ==
  IF result.kind = "code"
  THEN UNION {Range(t.body[i].specifiers) :
                i \in {j \in 1..Len(t.body) : IsCandidate(t.body[j])}}
  ELSE {}

\* A faulty hook: of the names of a result only one is recorded.
HookRecordsOneName(result, t) ==
  IF result.kind = "code" /\ t.symbols # {}
  THEN {CHOOSE n \in t.symbols : TRUE}
  ELSE {}

\* The names the hook records for a result: index.ts:124-136.
HookRecords(result, t) == IF result.kind = "code" THEN t.symbols ELSE {}

\* A faulty join: the call also waits for the predicates of the calls for
\* the other files.
PromiseAllSettledEverywhere(t) ==
  /\ \/ \E i \in 1..Len(t.body) : t.slots[i] = "rejected"
     \/ ~\E i \in 1..Len(t.body) : t.slots[i] = "pending"
  /\ \A f \in FileIds : ~\E i \in 1..Len(tx[f].body) : tx[f].slots[i] = "pending"

\* await Promise.all(body), transform.ts:157, goes on once a promise of the
\* call has rejected or all of them have resolved.
PromiseAllSettled(t) ==
  \/ \E i \in 1..Len(t.body) : t.slots[i] = "rejected"
  \/ ~\E i \in 1..Len(t.body) : t.slots[i] = "pending"

\* The join of transform.ts:157 and the rest of the hook, index.ts:118-138:
\* Promise.all rejects as soon as one predicate promise has rejected, and
\* resolves once all have resolved.
TransformFinish(id) ==
  /\ HostIdle
  /\ tx[id].pc = "awaiting"
  /\ LET t == [tx[id] EXCEPT !.symbols = StrippedImportSymbols(tx, id)]
         rejected == \E i \in 1..Len(t.body) : t.slots[i] = "rejected"
         pending == \E i \in 1..Len(t.body) : t.slots[i] = "pending"
         result == IF rejected
                   THEN [NoResult EXCEPT !.kind = "error", !.id = id,
                                         !.error = "predicate", !.call = t]
                   ELSE TransformResult(id, t)
     IN /\ PromiseAllSettled(t)
        /\ returned' = result
        /\ importSymbolsToSource' =
             RegistryPush(importSymbolsToSource, HookRecords(result, t), id)
  /\ tx' = [tx EXCEPT ![id] = IdleTx]
  /\ UNCHANGED <<phase, cachedConfig, cachedEnv, autoSourceMaps,
                 pluginRequestedSourcemap, hookCalls, decided, bundle,
                 outputDir, errors, thrown>>
  /\ UNCHANGED <<cwd, userSourcemap, unlinked, node, withObject, earlier>>

\* generateBundle(options, bundle): index.ts:141-156. The host calls it once
\* the modules of the build are transformed and bundled into artifacts;
\* dir is options.dir.
GenerateBundle(artifacts, dir) ==
  /\ HostIdle
  /\ phase = "strip"
  /\ NoneRunning
  /\ phase' = "done"
  /\ bundle' = artifacts
  /\ outputDir' = dir
  /\ LET found == IF ~cachedConfig THEN <<>>
                  ELSE checkBundle(artifacts, importSymbolsToSource, Root, dir)
     IN /\ errors' = found
        /\ importSymbolsToSource' =
             IF ~cachedConfig THEN importSymbolsToSource
             ELSE RegistryAfterCheck(artifacts, importSymbolsToSource, dir)
        /\ thrown' = IF Len(found) > 0 THEN <<Join(found, <<"\n">>)>> ELSE <<>>
  /\ UNCHANGED <<cachedConfig, cachedEnv, autoSourceMaps,
                 pluginRequestedSourcemap, tx, returned, hookCalls, decided>>
  /\ UNCHANGED <<cwd, userSourcemap, unlinked, node, withObject, earlier>>

Next ==
  \/ HostTakesResult
  \/ ConfigHook("build", "unset")
  \/ ConfigResolved
  \/ BuildStart
  \/ \E id \in FileIds : \E code \in FileTexts(id) :
       \E throwAt \in ThrowPoints(code) : TransformStart(id, code, throwAt)
  \/ \E id \in FileIds, i \in 1..MaxStmts, d \in {"strip", "keep", "rejected"} :
       PredicateSettles(id, i, d)
  \/ \E id \in FileIds : TransformFinish(id)
  \/ \E b \in Bundles, dir \in OutputDirs : GenerateBundle(b, dir)

Spec == Init /\ [][Next]_vars

\* The strip phase of a file whose predicate reads resolvedTarget, in a
\* process run from the project root or from elsewhere.
InitResolve == Constructed(TRUE) /\ cwd \in Cwds

NextResolve ==
  \/ HostTakesResult
  \/ ConfigHook("build", "unset")
  \/ ConfigResolved
  \/ BuildStart
  \/ \E code \in ResolveTexts : TransformStart(A_TS, code, 0)
  \/ \E i \in 1..MaxStmts : ReadResolvedTarget(A_TS, i)
  \/ \E p \in 1..MaxReads, found \in BOOLEAN : ResolveSettles(A_TS, p, found)
  \/ \E i \in 1..MaxStmts, d \in {"strip", "keep", "rejected"} :
       PredicateSettles(A_TS, i, d)
  \/ TransformFinish(A_TS)

SpecResolve == InitResolve /\ [][NextResolve]_vars

\* The same plugin object is handed to another build: the host starts over
\* with the config hook, the plugin keeps what its closure holds.
HostRestarts ==
  /\ HostIdle
  /\ phase \in {"done", "written"}
  /\ NoneRunning
  /\ phase' = "init"
  /\ unlinked' = {}
  /\ UNCHANGED <<cachedConfig, cachedEnv, autoSourceMaps,
                 pluginRequestedSourcemap, importSymbolsToSource, tx, returned,
                 hookCalls, decided, bundle, outputDir, errors, thrown, cwd,
                 userSourcemap, node, withObject, earlier>>

\* The names of the files of a written bundle: a chunk, its source map, a
\* style sheet.
X_JS_MAP == X_JS \o <<".", "m", "a", "p">>
EmittedNames == {X_JS, X_JS_MAP, <<"s", ".", "c", "s", "s">>}

\* writeBundle(options, bundle): index.ts:158-165. The host calls it when the
\* build passed generateBundle and wrote its files; names are the keys of
\* bundle, options.dir is the directory generateBundle was given.
WriteBundle(names) ==
  /\ HostIdle
  /\ phase = "done"
  /\ thrown = <<>>
  /\ phase' = "written"
  /\ unlinked' = IF ~pluginRequestedSourcemap \/ outputDir = <<>> THEN {}
                 ELSE {PathJoin(outputDir, n) :
                         n \in {m \in names : EndsWith(m, <<".", "m", "a", "p">>)}}
  /\ UNCHANGED <<cachedConfig, cachedEnv, autoSourceMaps,
                 pluginRequestedSourcemap, importSymbolsToSource, tx, returned,
                 hookCalls, decided, bundle, outputDir, errors, thrown, cwd,
                 userSourcemap, node, withObject, earlier>>

\* A bundle of one chunk in which nothing is undeclared.
CleanBundle ==
  <<[type |-> "chunk", fileName |-> X_JS, code |-> <<>>, moduleIds |-> {A_TS},
     map |-> NoMap]>>

\* Builds of one plugin object, with either value of the autoSourceMaps
\* option, under any configuration.
InitMaps == \E auto \in BOOLEAN : Constructed(auto) /\ cwd = Root

NextMaps ==
  \/ \E command \in {"build", "serve"}, sourcemap \in {"unset", "false", "set"} :
       ConfigHook(command, sourcemap)
  \/ ConfigResolved
  \/ BuildStart
  \/ \E dir \in OutputDirs : GenerateBundle(CleanBundle, dir)
  \/ \E names \in SUBSET EmittedNames : WriteBundle(names)
  \/ HostRestarts

SpecMaps == InitMaps /\ [][NextMaps]_vars

\* An import declaration is parsed: importAttributes.test.ts parseImport.
ParseImport(n) ==
  /\ node = NoNode
  /\ node' = n
  /\ withObject' = NotCalled
  /\ UNCHANGED <<phase, cachedConfig, cachedEnv, autoSourceMaps,
                 pluginRequestedSourcemap, importSymbolsToSource, tx, returned,
                 hookCalls, decided, bundle, outputDir, errors, thrown, cwd,
                 userSourcemap, unlinked, earlier>>

\* getImportAttributes(node) is called.
GetImportAttributes ==
  /\ node # NoNode
  /\ ~withObject.called
  /\ withObject' = [called |-> TRUE, out |-> getImportAttributes(node)]
  /\ UNCHANGED <<phase, cachedConfig, cachedEnv, autoSourceMaps,
                 pluginRequestedSourcemap, importSymbolsToSource, tx, returned,
                 hookCalls, decided, bundle, outputDir, errors, thrown, cwd,
                 userSourcemap, unlinked, node, earlier>>

NextAttributes ==
  \/ \E n \in AttrNodes \ {NoNode} : ParseImport(n)
  \/ GetImportAttributes

SpecAttributes == Init /\ [][NextAttributes]_vars

\* The texts of a.ts over a sequence of builds: the file imports two names
\* from a module, or one of them.
BuildTexts == {<<ImportDefaultAndNamespace>>, <<ImportNamed>>}

\* Builds one after another on one plugin object (watch mode), the file
\* edited between them.
NextBuilds ==
  \/ HostTakesResult
  \/ ConfigHook("build", "unset")
  \/ ConfigResolved
  \/ BuildStartAfterBuild
  \/ \E code \in BuildTexts : TransformStart(A_TS, code, 0)
  \/ \E i \in 1..MaxStmts, d \in {"strip", "keep"} : PredicateSettles(A_TS, i, d)
  \/ TransformFinish(A_TS)
  \/ \E b \in Bundles, dir \in OutputDirs : GenerateBundle(b, dir)

SpecBuilds == Init /\ [][NextBuilds]_vars

\* The texts of the two files when progress is followed: a.ts has two
\* imports for the predicate, b.ts the one of its fixture.
ProgressTexts(id) ==
  IF id = A_TS THEN {<<ImportNamed, ImportDefaultAndNamespace>>} ELSE FixtureTexts

\* The strip phase of two files whose transforms the host runs side by side.
NextProgress ==
  \/ HostTakesResult
  \/ ConfigHook("build", "unset")
  \/ ConfigResolved
  \/ BuildStart
  \/ \E id \in SourceIds : \E code \in ProgressTexts(id) : TransformStart(id, code, 0)
  \/ \E id \in SourceIds, i \in 1..MaxStmts, d \in {"strip", "keep", "rejected"} :
       PredicateSettles(id, i, d)
  \/ \E id \in SourceIds : TransformFinish(id)

\* The event loop runs a continuation that is ready (the host takes a
\* result, a join that can go on does), and the predicates invoked for a.ts
\* settle; those invoked for b.ts may never do.
FairProgress ==
  /\ WF_vars(HostTakesResult)
  /\ WF_vars(\E id \in SourceIds : TransformFinish(id))
  /\ WF_vars(\E i \in 1..MaxStmts, d \in {"strip", "keep", "rejected"} :
               PredicateSettles(A_TS, i, d))

SpecProgress == Init /\ [][NextProgress]_vars /\ FairProgress

(***************************************************************************)
(* Properties                                                              *)
(***************************************************************************)
Contains(text, fragment) ==
  \E i \in 1..(Len(text) - Len(fragment) + 1) :
    SubSeq(text, i, i + Len(fragment) - 1) = fragment

MessageHead(name) ==
  <<"Stripped conditional import binding '", name, "' still in output (">>

\* The chunk's text has an undeclared reference to name.
Undeclared(chunk, name) ==
  \E i \in 1..Len(chunk.code) :
    chunk.code[i].ruleId = "no-undef" /\ chunk.code[i].name = name

\* A build reaches generateBundle only if none of its transforms failed, so
\* there a name the predicate decided to strip from a file was stripped from it.
Dangling(k, f, n) ==
  /\ bundle[k].type = "chunk"
  /\ f \in bundle[k].moduleIds
  /\ Undeclared(bundle[k], n)
  /\ <<f, n>> \in decided

\* C1: after generateBundle, if a name n was stripped from a file f and a code
\* chunk built from f has an undeclared reference to n, exactly one error was
\* raised and its text contains "Stripped conditional import binding 'n'
\* still in output (", with or without a source map on the chunk.
C1_DanglingFailsBuild ==
  phase = "done" =>
    \A k \in 1..Len(bundle), f \in SourceIds, n \in BindingNames :
      Dangling(k, f, n) =>
        Len(thrown) = 1 /\ Contains(thrown[1], MessageHead(n))

C1_Witness ==
  /\ phase = "done"
  /\ \E k \in 1..Len(bundle), f \in SourceIds, n \in BindingNames :
       Dangling(k, f, n) /\ ~bundle[k].map.present
  /\ Len(thrown) = 1

\* C2: in a step in which a transform ends on a rejected predicate, or a hook
\* call ends in an error, the hook returns an error, no code and no map, and
\* the registry is left as it was.
C2_PredicateFailureAllOrNothing ==
  [][/\ \A id \in FileIds :
          (/\ tx[id].pc = "awaiting"
           /\ tx'[id].pc = "idle"
           /\ \E i \in 1..Len(tx[id].body) : tx[id].slots[i] = "rejected")
          => returned'.kind = "error" /\ returned'.id = id
     /\ (returned.kind = "none" /\ returned'.kind = "error")
          => /\ returned'.code = <<>>
             /\ ~returned'.map
             /\ importSymbolsToSource' = importSymbolsToSource]_vars

C2_Witness ==
  /\ returned.kind = "error"
  /\ returned.error = "predicate"
  /\ returned.call.symbols # {}
  /\ \E i \in 1..Len(returned.call.body) : returned.call.slots[i] = "rejected"

\* C3: the statements of the code a transform returns are statements of the
\* file, in the order they have in the file, whatever order the predicate
\* promises settled in.
C3_OrderPreserved ==
  returned.kind = "code" =>
    /\ \A i \in 1..Len(returned.code) :
         /\ returned.code[i].span \in 1..Len(returned.call.body)
         /\ returned.code[i] = returned.call.body[returned.code[i].span]
    /\ \A i, j \in 1..Len(returned.code) :
         i < j => returned.code[i].span < returned.code[j].span

C3_Witness ==
  /\ returned.kind = "code"
  /\ returned.call.overtaken
  /\ Len(returned.code) >= 2

\* C4: the code a transform returns is the file's statement list without the
\* imports decided "strip": every other statement is in it, unchanged, and
\* none of the stripped ones is.
C4_StripExactness ==
  returned.kind = "code" =>
    LET body == returned.call.body
        slots == returned.call.slots
        kept == {i \in 1..Len(body) : slots[i] # "strip"}
    IN /\ Len(returned.code) = Cardinality(kept)
       /\ \A i \in kept : \E k \in 1..Len(returned.code) : returned.code[k] = body[i]
       /\ \A k \in 1..Len(returned.code) :
            \E i \in kept : returned.code[k] = body[i]

C4_Witness ==
  /\ returned.kind = "code"
  /\ \E i, j \in 1..Len(returned.call.body) :
       /\ returned.call.slots[i] = "strip"
       /\ returned.call.slots[j] = "keep"
       /\ \E k \in 1..Len(returned.code) : returned.code[k] = returned.call.body[j]

\* The hook call that has just returned ran transform() to its end.
TransformCompleted ==
  returned.kind \in {"null", "code"} /\ returned.call.pc = "awaiting"

\* C5: a completed transform returns "unchanged" (null) exactly when no import
\* of the file was decided "strip".
C5_UnchangedIffNothingStripped ==
  TransformCompleted =>
    (returned.kind = "null"
       <=> \A i \in 1..Len(returned.call.body) : returned.call.slots[i] # "strip")

\* C6: in a step in which a transform ends with every predicate having
\* returned false, the hook returns null, no code and no map, and the
\* registry is left as it was.
C6_AllKeptUnchanged ==
  [][\A id \in FileIds :
       (/\ tx[id].pc = "awaiting"
        /\ tx'[id].pc = "idle"
        /\ \A i \in 1..Len(tx[id].body) : tx[id].slots[i] \in {"item", "keep"})
       => /\ returned'.kind = "null"
          /\ returned'.code = <<>>
          /\ ~returned'.map
          /\ importSymbolsToSource' = importSymbolsToSource]_vars

C6_Witness ==
  /\ returned.kind = "null"
  /\ returned.call.pc = "awaiting"
  /\ \E i \in 1..Len(returned.call.body) : returned.call.slots[i] = "keep"
  /\ \A i \in 1..Len(returned.call.body) : returned.call.slots[i] \in {"item", "keep"}

\* C7: a type-only import never goes to the predicate (it is pushed as it is,
\* or not reached), it is in the returned code whenever code is returned, and
\* the name it binds is no key of the registry.
C7_TypeOnlyUntouched ==
  /\ \A id \in FileIds, i \in 1..MaxStmts :
       (i <= Len(tx[id].body) /\ tx[id].body[i].typeOnly)
         => tx[id].slots[i] = "item"
  /\ \A i \in 1..Len(returned.call.body) :
       returned.call.body[i].typeOnly =>
         /\ returned.call.pc = "awaiting" => returned.call.slots[i] \in {"item", "unvisited"}
         /\ returned.kind = "code" =>
              \E k \in 1..Len(returned.code) : returned.code[k] = returned.call.body[i]
  /\ "DevType" \notin DOMAIN importSymbolsToSource

C7_Witness ==
  /\ returned.kind = "code"
  /\ \E i \in 1..Len(returned.call.body) : returned.call.body[i].typeOnly
  /\ Len(returned.code) < Len(returned.call.body)

\* C8: every file id on the registry's list of a name is the id of a file one
\* of whose imports binding that name the predicate decided to strip in this
\* build.
C8_RegistrySound ==
  \A n \in DOMAIN importSymbolsToSource :
    \A k \in 1..Len(importSymbolsToSource[n]) :
      <<importSymbolsToSource[n][k], n>> \in decided

C8_Witness ==
  /\ "debug" \in DOMAIN importSymbolsToSource
  /\ Range(importSymbolsToSource["debug"]) = {A_TS, B_TS}
  /\ "devOnly" \notin DOMAIN importSymbolsToSource

RECURSIVE Flatten(_)
Flatten(ss) ==
  IF ss = <<>> THEN <<>>
  ELSE Flatten(SubSeq(ss, 1, Len(ss) - 1)) \o ss[Len(ss)]

RECURSIVE Lines(_)
Lines(ls) ==
  IF Len(ls) = 1 THEN ls[1]
  ELSE Lines(SubSeq(ls, 1, Len(ls) - 1)) \o <<"\n">> \o ls[Len(ls)]

\* C9: after generateBundle, the list checkBundle returned is the messages of
\* every code chunk, chunk after chunk in the bundle's order; one error was
\* raised with these messages as its lines if there are any, and none if not.
C9_OneAggregatedFailure ==
  phase = "done" =>
    LET perChunk == [k \in 1..Len(bundle) |->
                       IF bundle[k].type = "chunk"
                       THEN checkChunk(bundle[k], importSymbolsToSource, Root, outputDir)
                       ELSE <<>>]
    IN /\ errors = Flatten(perChunk)
       /\ errors # <<>> => thrown = <<Lines(errors)>>
       /\ errors = <<>> => thrown = <<>>

C9_Witness ==
  /\ phase = "done"
  /\ Len(bundle) = 2
  /\ Len(errors) = 2
  /\ checkChunk(bundle[1], importSymbolsToSource, Root, outputDir) # <<>>
  /\ checkChunk(bundle[2], importSymbolsToSource, Root, outputDir) # <<>>
  /\ Len(thrown) = 1

\* The chunk's first reference to name, as findUndefinedRefs reports it, is
\* traced by the chunk's map to a source.
Traced(k, n) ==
  /\ bundle[k].type = "chunk"
  /\ bundle[k].map.present
  /\ bundle[k].map.source # <<>>
  /\ Undeclared(bundle[k], n)
  /\ n \in DOMAIN importSymbolsToSource
  /\ \E i \in 1..Len(importSymbolsToSource[n]) :
       importSymbolsToSource[n][i] \in bundle[k].moduleIds

\* C10: after generateBundle, when a chunk has a map that traces the reference
\* to a stripped name to a.ts, the message for the name lists a.ts alone
\* ("a.ts" with an output directory, the source as the map names it without).
C10_PreciseCase ==
  phase = "done" =>
    \A k \in 1..Len(bundle), n \in BindingNames :
      Traced(k, n) =>
        \E i \in 1..Len(errors) :
          errors[i] = MessageHead(n)
                      \o (IF outputDir # <<>> THEN <<"a", ".", "t", "s">>
                          ELSE bundle[k].map.source)
                      \o <<")">>

C10_Witness ==
  /\ phase = "done"
  /\ outputDir = OutDir
  /\ \E k \in 1..Len(bundle) : Traced(k, "debug") /\ bundle[k].moduleIds = {A_TS, B_TS}
  /\ Range(importSymbolsToSource["debug"]) = {A_TS, B_TS}
  /\ errors = <<MessageHead("debug") \o <<"a", ".", "t", "s", ")">>>>

\* The sequence of the elements of a finite set of paths, least first.
RECURSIVE SortedSeq(_)
SortedSeq(S) ==
  IF S = {} THEN <<>>
  ELSE LET least == CHOOSE x \in S : \A y \in S \ {x} : LexLess(x, y)
       IN <<least>> \o SortedSeq(S \ {least})

\* The chunk has a reference to a stripped name that no source map localizes.
Fallback(k, n) ==
  /\ bundle[k].type = "chunk"
  /\ ~bundle[k].map.present \/ bundle[k].map.source = <<>>
  /\ Undeclared(bundle[k], n)
  /\ n \in DOMAIN importSymbolsToSource
  /\ Range(importSymbolsToSource[n]) \cap bundle[k].moduleIds # {}

\* C11: after generateBundle, in the fallback case the message for a name
\* lists the files of the chunk the name was stripped from, each once, sorted
\* and joined by ", ", relative to the root when there is an output directory
\* and as the registry has them when there is none.
C11_FallbackListDeduplicated ==
  phase = "done" =>
    \A k \in 1..Len(bundle), n \in BindingNames :
      Fallback(k, n) =>
        LET origins == Range(importSymbolsToSource[n]) \cap bundle[k].moduleIds
            rendered == {IF outputDir # <<>> THEN relativeToRoot(f, Root) ELSE f :
                           f \in origins}
        IN \E i \in 1..Len(errors) :
             errors[i] = MessageHead(n) \o Join(SortedSeq(rendered), <<",", " ">>)
                         \o <<")">>

\* The transform() calls in sight: the running ones and the one that has
\* just returned.
Calls == {tx[f] : f \in FileIds} \cup {returned.call}

\* C12: in a transform() call, the resolver is called only by an access to
\* resolvedTarget, at most once for a specifier, and all accesses for a
\* specifier get the same promise, hence the same result.
C12_LazyMemoizedResolution ==
  \A t \in Calls :
    /\ \A p \in 1..Len(t.promises) : \E h \in t.handles : h[2] = p
    /\ \A p, q \in 1..Len(t.promises) :
         t.promises[p].target = t.promises[q].target => p = q
    /\ \A g, h \in t.handles :
         t.body[g[1]].source = t.body[h[1]].source => g[2] = h[2]

\* Two imports of one specifier read resolvedTarget, one of them again while
\* the resolution is pending and once it has settled, and an import of another
\* specifier never reads it.
C12_Witness ==
  \E t \in Calls :
    /\ Len(t.promises) = 1
    /\ \E g, h \in t.handles : g[1] # h[1]
    /\ \E h \in t.handles : h[3] = "pending"
    /\ \E h \in t.handles : h[3] \in {"id", "null"}
    /\ \E i \in 1..Len(t.body) :
         /\ t.slots[i] \in {"strip", "keep"}
         /\ t.body[i].source \notin DOMAIN t.resolveCache

\* C13: a resolution that returned null settles resolvedTarget with the raw
\* specifier text.
C13_NullResolutionGivesRawSpecifier ==
  \A t \in Calls :
    \A p \in 1..Len(t.promises) :
      t.promises[p].resolution = "null" => t.promises[p].value = Chars(t.promises[p].target)

\* The clause of the import in hand, and its entries that can be read: a key
\* with a value field and a literal value.
ClauseOfNode == IF node.with.present THEN node.with ELSE node.asserts
ReadableEntries ==
  {i \in 1..Len(ClauseOfNode.properties) :
     LET pr == ClauseOfNode.properties[i]
     IN /\ pr.type = "KeyValueProperty"
        /\ pr.key.type \in {"Identifier", "StringLiteral"}
        /\ pr.value.type \in {"StringLiteral", "BooleanLiteral", "NumericLiteral"}}

C15_CleanupOnlyOfOwnMaps ==
  (phase = "written" /\ unlinked # {}) =>
    /\ autoSourceMaps
    /\ cachedEnv = "build"
    /\ userSourcemap \in {"unset", "false"}

\* The names bound by the imports a call decided to strip.
StrippedNames(t) ==
  UNION {Range(t.body[i].specifiers) :
           i \in {j \in 1..Len(t.body) : t.slots[j] = "strip"}}

\* C16: in the step in which a file's transform completes without failure,
\* the file's id is appended to the registry's list of every name bound by an
\* import of the file decided "strip".
C16_RegistryComplete ==
  [][\A id \in FileIds :
       (/\ tx[id].pc = "awaiting"
        /\ tx'[id].pc = "idle"
        /\ returned'.kind # "error")
       => \A n \in StrippedNames(tx[id]) :
            /\ n \in DOMAIN importSymbolsToSource'
            /\ importSymbolsToSource'[n] =
                 Append(IF n \in DOMAIN importSymbolsToSource
                        THEN importSymbolsToSource[n] ELSE <<>>, id)]_vars

\* An import binding two names was stripped from a.ts, after b.ts was
\* recorded for one of them: a.ts is the last of both lists.
C16_Witness ==
  /\ returned.kind = "code"
  /\ returned.id = A_TS
  /\ \E i \in 1..Len(returned.call.body) :
       /\ returned.call.slots[i] = "strip"
       /\ Len(returned.call.body[i].specifiers) = 2
  /\ importSymbolsToSource["debug"] = <<B_TS, A_TS>>
  /\ importSymbolsToSource["devOnly"] = <<A_TS>>

\* The number of times a file id is on a list.
Occurrences(f, list) == Cardinality({k \in 1..Len(list) : list[k] = f})

\* Every transform of this build was invoked for another file, and stripped
\* a name.
OnDistinctFiles ==
  hookCalls = Cardinality({f \in SourceIds : \E n \in BindingNames : <<f, n>> \in decided})

\* C17: once the transforms of a build, invoked for distinct files and
\* interleaved in any way, have all completed, the registry's list of a name
\* has each file that stripped the name exactly once.
C17_NoLostUpdate ==
  (phase = "strip" /\ NoneRunning /\ returned.kind # "error" /\ OnDistinctFiles) =>
    \A f \in SourceIds, n \in BindingNames :
      <<f, n>> \in decided =>
        /\ n \in DOMAIN importSymbolsToSource
        /\ Occurrences(f, importSymbolsToSource[n]) = 1

\* The transforms of a.ts and b.ts ran at the same time and both stripped
\* debug; the last of them has just completed.
C17_Witness ==
  /\ phase = "strip"
  /\ NoneRunning
  /\ OnDistinctFiles
  /\ returned.kind = "code"
  /\ returned.call.overlapped
  /\ <<A_TS, "debug">> \in decided
  /\ <<B_TS, "debug">> \in decided
  /\ Len(importSymbolsToSource["debug"]) = 2

\* A predicate promise of the call has rejected.
HasRejected(t) == \E i \in 1..Len(t.body) : t.slots[i] = "rejected"

\* The registry's list of a name, empty for a name it has no key for.
ListOf(reg, n) == IF n \in DOMAIN reg THEN reg[n] ELSE <<>>

\* C18: a step in which a predicate of a file rejects, or the file's
\* transform fails, changes neither the registry nor the running transform
\* of another file; and a transform that completes while another file's has
\* a rejected predicate, or after the build has failed, returns and records
\* its own stripped names, leaving the other lists as they were.
C18_FailureIsolated ==
  [][\A id \in SourceIds :
       /\ (/\ tx[id].pc = "awaiting"
           /\ \/ HasRejected(tx'[id]) /\ ~HasRejected(tx[id])
              \/ tx'[id].pc = "idle" /\ returned'.kind = "error")
          => /\ importSymbolsToSource' = importSymbolsToSource
             /\ \A f \in FileIds \ {id} : tx'[f] = tx[f]
       /\ (/\ tx[id].pc = "awaiting"
           /\ tx'[id].pc = "idle"
           /\ ~HasRejected(tx[id])
           /\ \/ phase = "failed"
              \/ \E g \in SourceIds \ {id} : HasRejected(tx[g]))
          => /\ returned'.kind # "error"
             /\ returned'.id = id
             /\ returned'.call.symbols = StrippedNames(tx[id])
             /\ \A g \in FileIds \ {id} : tx'[g] = tx[g]
             /\ \A n \in BindingNames :
                  ListOf(importSymbolsToSource', n) =
                    IF n \in StrippedNames(tx[id])
                    THEN Append(ListOf(importSymbolsToSource, n), id)
                    ELSE ListOf(importSymbolsToSource, n)]_vars

\* b.ts has completed and is recorded for debug, while the transform of
\* a.ts, which stripped devOnly, has a rejected predicate and is still
\* running.
C18_Witness ==
  /\ returned.kind = "code"
  /\ returned.id = B_TS
  /\ returned.call.overlapped
  /\ tx[A_TS].pc = "awaiting"
  /\ HasRejected(tx[A_TS])
  /\ "devOnly" \in tx[A_TS].symbols
  /\ importSymbolsToSource = [n \in {"debug"} |-> <<B_TS>>]

\* The name was stripped in a build before this one, and in this one from no
\* file.
StrippedOnlyEarlier(n) ==
  n \in earlier /\ \A f \in SourceIds : <<f, n>> \notin decided

\* C19: from buildStart to the first strip decision of the build the registry
\* is empty, and after generateBundle no error message is about a name that
\* was stripped only in an earlier build of the plugin object.
C19_RegistryBuildScoped ==
  /\ (phase = "strip" /\ decided = {}) => importSymbolsToSource = EmptyRegistry
  /\ phase = "done" =>
       \A n \in BindingNames :
         StrippedOnlyEarlier(n) =>
           /\ n \notin DOMAIN importSymbolsToSource
           /\ \A i \in 1..Len(errors) : ~Contains(errors[i], MessageHead(n))
           /\ \A i \in 1..Len(thrown) : ~Contains(thrown[i], MessageHead(n))

\* An earlier build stripped debug and devOnly from a.ts, this one only
\* debug; its chunk refers to both names, and the one error is about debug.
C19_Witness ==
  /\ phase = "done"
  /\ StrippedOnlyEarlier("devOnly")
  /\ <<A_TS, "debug">> \in decided
  /\ \E k \in 1..Len(bundle) :
       /\ bundle[k].type = "chunk"
       /\ A_TS \in bundle[k].moduleIds
       /\ Undeclared(bundle[k], "devOnly")
       /\ Undeclared(bundle[k], "debug")
  /\ Len(errors) = 1
  /\ Contains(errors[1], MessageHead("debug"))

\* C20: the step of generateBundle leaves the registry as it was, keys and
\* lists in their order, with or without a source map and an output
\* directory; what it reports is what checkBundle gives for the bundle and
\* the registry as they are after it.
C20_CheckIsDiagnostic ==
  [][(phase = "strip" /\ phase' = "done") =>
       /\ importSymbolsToSource' = importSymbolsToSource
       /\ errors' = checkBundle(bundle', importSymbolsToSource', Root, outputDir')]_vars

\* The fallback path without an output directory: the message names a.ts
\* before b.ts, the registry's list still has b.ts first.
C20_Witness ==
  /\ phase = "done"
  /\ outputDir = <<>>
  /\ "debug" \in DOMAIN importSymbolsToSource
  /\ importSymbolsToSource["debug"] = <<B_TS, A_TS>>
  /\ \E k \in 1..Len(bundle) :
       /\ bundle[k].type = "chunk"
       /\ ~bundle[k].map.present
       /\ bundle[k].moduleIds = {A_TS, B_TS}
       /\ Undeclared(bundle[k], "debug")
  /\ Len(errors) = 1
  /\ errors[1] = Message("debug", <<A_TS, B_TS>>)

\* Artifact k of the bundle is a code chunk with an undeclared reference to
\* n, n is a key of the registry, and one of its origins is a module of the
\* chunk.
Qualifies(k, n) ==
  /\ bundle[k].type = "chunk"
  /\ Undeclared(bundle[k], n)
  /\ n \in DOMAIN importSymbolsToSource
  /\ Range(importSymbolsToSource[n]) \cap bundle[k].moduleIds # {}

\* The messages of the last check that are about n.
MessagesAbout(n) ==
  {i \in 1..Len(errors) : Contains(errors[i], MessageHead(n))}

\* C21: after generateBundle every message is about a name for which an
\* artifact of the bundle is a code chunk with the name undeclared in it, the
\* name a key of the registry, and an origin of the name among the chunk's
\* modules; there are no more messages about a name than such chunks; with
\* an empty registry there is no message.
C21_MessageOnlyIfQualified ==
  phase = "done" =>
    /\ \A i \in 1..Len(errors) :
         \E n \in BindingNames :
           i \in MessagesAbout(n) /\ \E k \in 1..Len(bundle) : Qualifies(k, n)
    /\ \A n \in BindingNames :
         Cardinality(MessagesAbout(n)) <=
           Cardinality({k \in 1..Len(bundle) : Qualifies(k, n)})
    /\ DOMAIN importSymbolsToSource = {} => errors = <<>>

\* debug was stripped from b.ts only; the bundle has an asset with an
\* undeclared debug in its text and a chunk of a.ts alone with an undeclared
\* debug: no message.
C21_Witness ==
  /\ phase = "done"
  /\ DOMAIN importSymbolsToSource = {"debug"}
  /\ importSymbolsToSource["debug"] = <<B_TS>>
  /\ Len(bundle) = 2
  /\ bundle[1] = ScriptAsset
  /\ bundle[2].type = "chunk"
  /\ bundle[2].moduleIds = {A_TS}
  /\ Undeclared(bundle[2], "debug")
  /\ errors = <<>>

\* The positions of the text at which n is reported undeclared.
OccurrencesOf(code, n) ==
  {i \in 1..Len(code) : code[i].ruleId = "no-undef" /\ code[i].name = n}

\* C22: after generateBundle, for every code chunk of the bundle
\* findUndefinedRefs has exactly one entry for each name undeclared in the
\* chunk, with the position of the name's first occurrence, and there are no
\* more messages about a name than chunks in which it is undeclared.
C22_OneMessagePerNamePerChunk ==
  phase = "done" =>
    /\ \A k \in 1..Len(bundle) :
         bundle[k].type = "chunk" =>
           LET refs == findUndefinedRefs(bundle[k].code)
           IN /\ \A n \in BindingNames :
                   Cardinality({j \in 1..Len(refs) : refs[j].name = n}) =
                     IF Undeclared(bundle[k], n) THEN 1 ELSE 0
              /\ \A j \in 1..Len(refs) :
                   /\ refs[j].line \in OccurrencesOf(bundle[k].code, refs[j].name)
                   /\ \A i \in OccurrencesOf(bundle[k].code, refs[j].name) :
                        refs[j].line <= i
                   /\ refs[j].column = 1
    /\ \A n \in BindingNames :
         Cardinality(MessagesAbout(n)) <=
           Cardinality({k \in 1..Len(bundle) :
                          bundle[k].type = "chunk" /\ Undeclared(bundle[k], n)})

\* debug, stripped from a.ts, is undeclared at two places of a chunk of
\* a.ts: one message.
C22_Witness ==
  /\ phase = "done"
  /\ Len(bundle) = 1
  /\ bundle[1].type = "chunk"
  /\ OccurrencesOf(bundle[1].code, "debug") = {1, 2}
  /\ Qualifies(1, "debug")
  /\ Len(errors) = 1
  /\ MessagesAbout("debug") = {1}

\* C23: a step in which the transform hook is called while config or env is
\* not stored is a step in which the hook raises "config or env not
\* resolved": it returns no code and no map, no predicate is invoked (no call
\* of transform() is made or changed, nothing is decided), and the registry
\* is left as it was.
C23_PreconditionFailure ==
  [][\A id \in FileIds :
       (/\ returned.kind = "none"
        /\ tx[id].pc = "idle"
        /\ ~cachedConfig \/ cachedEnv = "undefined"
        /\ \/ returned'.kind # "none" /\ returned'.id = id
           \/ tx'[id] # tx[id])
       => /\ returned'.kind = "error"
          /\ returned'.id = id
          /\ returned'.error = "config or env not resolved"
          /\ returned'.code = <<>>
          /\ ~returned'.map
          /\ returned'.call = NoResult.call
          /\ tx' = tx
          /\ decided' = decided
          /\ importSymbolsToSource' = importSymbolsToSource]_vars

\* The hook was called for a.ts after config and before configResolved.
C23_Witness ==
  /\ returned.kind = "error"
  /\ returned.id = A_TS
  /\ returned.error = "config or env not resolved"
  /\ cachedEnv = "build"
  /\ ~cachedConfig
  /\ NoneRunning
  /\ importSymbolsToSource = EmptyRegistry

\* Statement i of the call is a top-level import that is not type-only.
ValueImport(t, i) == t.body[i].type = "ImportDeclaration" /\ ~t.body[i].typeOnly

\* The predicate was invoked for statement i of the call.
Invoked(t, i) == t.slots[i] \in {"pending", "strip", "keep", "rejected", "threw"}

\* The result of the predicate invoked for statement i has come in.
Settled(t, i) == t.slots[i] \in {"strip", "keep", "rejected"}

Stalled(t) ==
  /\ \E i \in 1..Len(t.body) : t.slots[i] = "pending"
  /\ \A i \in 1..Len(t.body) : t.slots[i] # "rejected"

\* C25: when the predicates invoked for a.ts settle, a running transform of
\* a.ts comes to return to the host, with a result or an error, whether
\* the predicates invoked for b.ts settle or not; a result with code comes
\* with a.ts on the registry's list of each name it stripped; and a call does
\* not complete while a predicate it invoked is pending and none has rejected.
C25_ProgressAndStallIsolation ==
  /\ (tx[A_TS].pc = "awaiting") ~>
       (/\ tx[A_TS].pc = "idle"
        /\ returned.id = A_TS
        /\ returned.kind \in {"code", "null", "error"}
        /\ returned.kind = "code" =>
             \A n \in returned.call.symbols :
               /\ n \in DOMAIN importSymbolsToSource
               /\ A_TS \in Range(importSymbolsToSource[n]))
  /\ [][\A id \in SourceIds :
          (tx[id].pc = "awaiting" /\ Stalled(tx[id])) => tx'[id].pc = "awaiting"]_vars

\* The transform of a.ts, begun while that of b.ts was running, has
\* completed and a.ts is recorded for debug; the predicate invoked for b.ts
\* is still pending.
C25_Witness ==
  /\ tx[B_TS].pc = "awaiting"
  /\ Stalled(tx[B_TS])
  /\ returned.id = A_TS
  /\ returned.kind = "code"
  /\ returned.call.overlapped
  /\ "debug" \in DOMAIN importSymbolsToSource
  /\ importSymbolsToSource["debug"] = <<A_TS>>

\* The file names of a message's list: the texts between ", ".
RECURSIVE SplitNames(_)
SplitNames(list) ==
  IF list = <<>> THEN {}
  ELSE LET commas == {c \in 1..Len(list) : list[c] = ","}
       IN IF commas = {} THEN {list}
          ELSE LET c == CHOOSE x \in commas : \A y \in commas : x <= y
               IN {SubSeq(list, 1, c - 1)} \cup SplitNames(SubSeq(list, c + 2, Len(list)))

\* The file names in message i: what is between the head and the closing
\* parenthesis.
NamesIn(i) == SplitNames(SubSeq(errors[i], 4, Len(errors[i]) - 1))

\* The ways a message may name file f: its id, its path from the root, or
\* the path a source map has for it.
NamesOf(f) ==
  {f, relativeToRoot(f, Root)} \cup (IF f = A_TS THEN {RawSourceA} ELSE {})

\* C26: after generateBundle, every file a message about n names is a file
\* from which n was stripped in this build and a module of a chunk of the
\* bundle in which n is undeclared.
C26_NamedFilesAreOrigins ==
  phase = "done" =>
    \A n \in BindingNames :
      \A i \in MessagesAbout(n) :
        \A name \in NamesIn(i) :
          \E f \in SourceIds :
            /\ name \in NamesOf(f)
            /\ <<f, n>> \in decided
            /\ \E k \in 1..Len(bundle) :
                 /\ bundle[k].type = "chunk"
                 /\ f \in bundle[k].moduleIds
                 /\ Undeclared(bundle[k], n)

====
